---------------------------- MODULE Spec2Model ----------------------------
(***************************************************************************)
(* A model of scripts/generate-cny-metrics.ts: main builds the day series  *)
(* of the window, render classifies the counts (quantileLevels), computes  *)
(* the summary (stats), lays the days on the week grid and synthesizes the *)
(* dragon's waypoints by a scored random walk over the grid.               *)
(*                                                                         *)
(* A calendar date is its day number since 1970-01-01 (a Thursday); the    *)
(* ISO strings of the source are in one-to-one correspondence with these   *)
(* numbers (iso and toDate are each other's inverse).                      *)
(***************************************************************************)
EXTENDS Integers, Sequences, FiniteSets

VARIABLES
  end,            \* main: iso(new Date()), today's date
  duration,       \* parseArgs: "full-year" | "half-year"
  map,            \* fetchContributions' result: date -> count
  username,       \* parseArgs: the --username value, "" when none is given
  httpOk,         \* fetchContributions: resp.ok
  rng,            \* how Math.random() draws: "free", "slow" or "stream"
  seed,           \* the stream Math.random() is fed from when rng = "stream"
  exitCode,       \* the process's exit code
  written,        \* main: the output file has been written
  cloudId,        \* the module-level counter of svgCloud
  lanternId,      \* the module-level counter of svgLantern
  call,           \* which call of render the process is in
  first,          \* what the first call of render returned
  doc,            \* render: the parts of the document that carry an id
  bars,           \* render: the cells of the bars, in painting order
  nDraws,         \* Math.random() calls the walk has made in this call
  creature,       \* render: the creature layer has been emitted
  parts,          \* render: the floor tiles and bar faces pushed, in order
  pathD,          \* render: the segments of the motion path
  pc,             \* position in main / render
  days,           \* main: the day series handed to render
  levels,         \* render: quantileLevels(days)
  s,              \* render: stats(days)
  gridStart,      \* render
  totalWeeks,     \* render
  barHeightMap,   \* render (dragon block): cell -> bar height
  currW, currD,   \* the walk's current cell
  lastDw, lastDd, \* the walk's previous move
  recentHistory,  \* the walk's FIFO of recently entered cells
  waypoints,      \* the walk's output
  i               \* the walk's loop counter

vars == <<end, duration, map, username, httpOk, rng, seed, exitCode, written,
          cloudId, lanternId, call, first, doc, bars, nDraws, creature,
          parts, pathD, pc, days, levels, s, gridStart, totalWeeks,
          barHeightMap, currW, currD, lastDw, lastDd, recentHistory,
          waypoints, i>>

inputVars == <<end, duration, map, username, httpOk, rng, seed>>
processVars == <<exitCode, written, call, first>>
globalVars == <<cloudId, lanternId>>
renderVars == <<levels, s, gridStart, totalWeeks>>
walkVars == <<barHeightMap, currW, currD, lastDw, lastDd, recentHistory,
              waypoints, i>>

-----------------------------------------------------------------------------
(* Bounds of the model *)

\* The largest count a fetched day carries.
MaxCount == 2

\* The walk's random draws are arbitrary during its first MaxRandomSteps
\* iterations; in every later iteration Math.random() returns 0.
MaxRandomSteps == 2

\* At most this many candidates of one iteration draw the high jitter.
MaxHighJitter == 1

-----------------------------------------------------------------------------
(* Date helpers *)

\* Date.getUTCDay(): 0 = Sunday; day 0 (1970-01-01) is a Thursday.
getUTCDay(d) == (d + 4) % 7

addDays(isoDate, n) == isoDate + n

\* The dates from start up to the day before e.
dateRangeOpen(start, e) == [k \in 1..(e - start) |-> start + k - 1]

\* The loop of dateRange: the dates start..e pushed in ascending order, none
\* when start is after e (the range is walked in two halves, the lower first).
RECURSIVE dateRange(_, _)
dateRange(start, e) ==
  IF start > e THEN << >>
  ELSE IF start = e THEN << start >>
  ELSE LET mid == (start + e) \div 2
       IN  dateRange(start, mid) \o dateRange(mid + 1, e)

alignSunday(isoDate) ==
  IF getUTCDay(isoDate) # 0 THEN isoDate - getUTCDay(isoDate) ELSE isoDate

\* Both dates are UTC midnights, so the rounded quotient is the exact
\* difference of the day numbers.
diffDays(a, b) == a - b

-----------------------------------------------------------------------------
(* Colour / stats *)

\* The element of a one-element set. Binding a value as the element of a
\* one-element set evaluates it once, however often it is then used.
Only(S) == CHOOSE x \in S : TRUE

colors == << "#5a2020", "#b82e2e", "#d94040", "#e8823a", "#f5c842" >>

\* The level (0..4) a palette colour stands for.
LevelOf(c) == (CHOOSE k \in 1..Len(colors) : colors[k] = c) - 1

Counts(ds) == [k \in 1..Len(ds) |-> ds[k].count]

IsPositive(v) == v > 0

\* A sort that leaves the array as it is.
SortAscUnsorted(vs) == vs

\* Array.prototype.sort((a, b) => a - b): the ascending arrangement of vs.
\* Position r holds the value v with fewer than r entries below v and at
\* least r entries not above it.
SortAsc(vs) ==
  [r \in 1..Len(vs) |->
     CHOOSE v \in { vs[k] : k \in 1..Len(vs) } :
       /\ Cardinality({ j \in 1..Len(vs) : vs[j] < v }) < r
       /\ r <= Cardinality({ j \in 1..Len(vs) : vs[j] <= v })]

\* Math.floor(m * q) in IEEE double arithmetic for q = 0.35, 0.65, 0.88 given
\* in hundredths: the double product falls just below the exact integer for
\* q = 0.35 at m = 180, 340, 360 and agrees with the exact floor for every
\* other m below 400.
FloorMul(m, q100) ==
  IF q100 = 35 /\ m \in {180, 340, 360} THEN (m * q100) \div 100 - 1
  ELSE (m * q100) \div 100

pick(vals, q100) == vals[FloorMul(Len(vals) - 1, q100) + 1]

\* Math.max(acc, ...) over the counts of ds[lo..hi], left to right (the range
\* is walked in two halves, the lower first).
RECURSIVE MaxRange(_, _, _, _)
MaxRange(acc, ds, lo, hi) ==
  IF lo > hi THEN acc
  ELSE IF lo = hi THEN (IF acc >= ds[lo].count THEN acc ELSE ds[lo].count)
  ELSE Only({ MaxRange(left, ds, (lo + hi) \div 2 + 1, hi) :
                left \in { MaxRange(acc, ds, lo, (lo + hi) \div 2) } })

\* The thresholds quantileLevels picks from the sorted positive counts.
Thresholds(vals) ==
  IF Len(vals) = 0 THEN << >>
  ELSE << pick(vals, 35), pick(vals, 65), pick(vals, 88) >>

\* quantileLevels: the maximum and the three thresholds (none when no count is
\* positive).
quantileLevels(ds) ==
  [max |-> MaxRange(0, ds, 1, Len(ds)),
   q |-> Only({ Thresholds(vals) :
                 vals \in { Only({ SortAsc(pos) :
                            pos \in { SelectSeq(Counts(ds), IsPositive) } }) } })]

\* levelColor with its comparisons turned round.
levelColorFlipped(ql, count) ==
  IF ql.q = << >> THEN colors[1]
  ELSE IF count <= 0 THEN colors[1]
  ELSE IF count >= ql.q[3] THEN colors[2]
  ELSE IF count >= ql.q[2] THEN colors[3]
  ELSE IF count >= ql.q[1] THEN colors[4]
  ELSE colors[5]

\* levelColor with strict comparisons against the thresholds.
levelColorStrict(ql, count) ==
  IF ql.q = << >> THEN colors[1]
  ELSE IF count <= 0 THEN colors[1]
  ELSE IF count < ql.q[1] THEN colors[2]
  ELSE IF count < ql.q[2] THEN colors[3]
  ELSE IF count < ql.q[3] THEN colors[4]
  ELSE colors[5]

\* levelColor without the test of the count against 0.
levelColorNoZeroTest(ql, count) ==
  IF ql.q = << >> THEN colors[1]
  ELSE IF count <= ql.q[1] THEN colors[2]
  ELSE IF count <= ql.q[2] THEN colors[3]
  ELSE IF count <= ql.q[3] THEN colors[4]
  ELSE colors[5]

\* The levelColor closure quantileLevels returns, applied to a count.
levelColor(ql, count) ==
  IF ql.q = << >> THEN colors[1]
  ELSE IF count <= 0 THEN colors[1]
  ELSE IF count <= ql.q[1] THEN colors[2]
  ELSE IF count <= ql.q[2] THEN colors[3]
  ELSE IF count <= ql.q[3] THEN colors[4]
  ELSE colors[5]

\* days.reduce((a, d) => a + d.count, acc) over ds[lo..hi], left to right.
RECURSIVE SumRange(_, _, _, _)
SumRange(acc, ds, lo, hi) ==
  IF lo > hi THEN acc
  ELSE IF lo = hi THEN acc + ds[lo].count
  ELSE Only({ SumRange(left, ds, (lo + hi) \div 2 + 1, hi) :
                left \in { SumRange(acc, ds, lo, (lo + hi) \div 2) } })

\* The streak iteration without the reset of current on an empty day.
StreakStepNoReset(st, c) ==
  IF c > 0
  THEN << st[1] + 1, IF st[2] >= st[1] + 1 THEN st[2] ELSE st[1] + 1 >>
  ELSE << st[1], st[2] >>

\* The streak iteration with best following current.
StreakStepBestIsCurrent(st, c) ==
  IF c > 0 THEN << st[1] + 1, st[1] + 1 >> ELSE << 0, 0 >>

\* One iteration of the streak loop of stats on <<current, best>>.
StreakStep(st, c) ==
  IF c > 0
  THEN << st[1] + 1, IF st[2] >= st[1] + 1 THEN st[2] ELSE st[1] + 1 >>
  ELSE << 0, st[2] >>

\* The streak loop of stats over ds[lo..hi], left to right.
RECURSIVE Streaks(_, _, _, _)
Streaks(st, ds, lo, hi) ==
  IF lo > hi THEN st
  ELSE IF lo = hi THEN StreakStep(st, ds[lo].count)
  ELSE Only({ Streaks(left, ds, (lo + hi) \div 2 + 1, hi) :
                left \in { Streaks(st, ds, lo, (lo + hi) \div 2) } })

stats(ds) ==
  Only({ [total |-> SumRange(0, ds, 1, Len(ds)),
          max |-> MaxRange(0, ds, 1, Len(ds)),
          current |-> st[1], best |-> st[2]] :
         st \in { Streaks(<< 0, 0 >>, ds, 1, Len(ds)) } })

-----------------------------------------------------------------------------
(* Inputs *)

\* The lookback of a year whatever the duration.
lookbackAlwaysYear(dur) == IF dur = "full-year" THEN 365 ELSE 365

\* main, line 1681.
lookbackOf(dur) == IF dur = "full-year" THEN 365 ELSE 180

\* main, lines 1682-1683: the Sunday on or before end - lookback.
startOf(e, dur) == alignSunday(addDays(e, -lookbackOf(dur)))

Durations == { "full-year", "half-year" }

\* 2026-01-03 (a Saturday) .. 2026-01-09 (a Friday): one end date of every
\* weekday, hence every window length main can produce.
EndDates == 20456 .. 20462

\* The dates whose counts the fetched page sets in a run of SpecData: days
\* 100 and 101 of the window and its last two days.
DataDates(e, dur) ==
  { startOf(e, dur) + 100, startOf(e, dur) + 101, e - 1, e }

\* The end-to-end scenario: a 366-day full-year window whose days 100 and 101
\* have count 5 and whose other days have count 0.
IsScenarioWindow(e, dur) ==
  dur = "full-year" /\ diffDays(e, startOf(e, dur)) + 1 = 366

ScenarioMap(e, dur) ==
  [d \in { startOf(e, dur) + 100, startOf(e, dur) + 101 } |-> 5]

-----------------------------------------------------------------------------
(* main *)

\* parseArgs, line 884: no --username value was given.
parseArgsThrows == username = ""

\* The fetch answering with a status only, whatever the page holds.
fetchThrowsOnStatusOnly == ~httpOk

\* fetchContributions, lines 930 and 961: a response that is not OK, or a page
\* no date was recovered from.
fetchThrows == ~httpOk \/ DOMAIN map = {}

\* Line 1686: the day series of the window start..e over the fetched map m; a
\* date m lacks counts 0.
daysOf(start, e, m) ==
  Only({ [k \in 1..Len(dates) |->
            [date |-> dates[k],
             count |-> IF dates[k] \in DOMAIN m THEN m[dates[k]] ELSE 0]] :
         dates \in { dateRange(start, e) } })

\* Lines 1679-1686: the arguments parsed and the page fetched, the window and
\* its day series.
Main ==
  /\ pc = "main"
  /\ ~parseArgsThrows
  /\ ~fetchThrows
  /\ days' = daysOf(startOf(end, duration), end, map)
  /\ pc' = "render"
  /\ UNCHANGED <<doc, bars, nDraws, creature, parts, pathD>>
  /\ UNCHANGED inputVars
  /\ UNCHANGED processVars
  /\ UNCHANGED globalVars
  /\ UNCHANGED renderVars
  /\ UNCHANGED walkVars

\* Lines 1695-1698: parseArgs or fetchContributions threw; main's promise
\* rejects, the error is logged and the process exits with code 1.
MainFail ==
  /\ pc = "main"
  /\ parseArgsThrows \/ fetchThrows
  /\ exitCode' = 1
  /\ pc' = "failed"
  /\ UNCHANGED <<written, call, first, days, doc, bars, nDraws, creature, parts, pathD>>
  /\ UNCHANGED inputVars
  /\ UNCHANGED globalVars
  /\ UNCHANGED renderVars
  /\ UNCHANGED walkVars

\* Lines 1689-1692: the document render returned is written to the output
\* file and main returns.
Write ==
  /\ pc = "returned"
  /\ written' = TRUE
  /\ pc' = "exit"
  /\ UNCHANGED <<exitCode, call, first, days, doc, bars, nDraws, creature, parts, pathD>>
  /\ UNCHANGED inputVars
  /\ UNCHANGED globalVars
  /\ UNCHANGED renderVars
  /\ UNCHANGED walkVars

-----------------------------------------------------------------------------
(* render: classifier, summary, grid *)

\* svgCloud, lines 1080-1083: what a cloud takes from its id.
svgCloud(id) == [drift |-> 12 + id * 4, dur |-> 40 + id * 12]

\* svgLantern, lines 1039-1040: what a lantern takes from its id, the
\* duration 6 + id * 1.5 in half seconds.
svgLantern(id) == [dur2 |-> 12 + id * 3]

\* Lines 1231-1326: the classifier, the summary and the grid, then the three
\* clouds of the top area, each taking the next id of the module-level
\* counter, and the two lanterns, the lantern counter reset before each.
RenderHead ==
  /\ pc = "render"
  /\ levels' = quantileLevels(days)
  /\ s' = stats(days)
  /\ gridStart' = alignSunday(days[1].date)
  /\ totalWeeks' = diffDays(days[Len(days)].date, alignSunday(days[1].date)) \div 7
  /\ doc' = [clouds |-> << svgCloud(cloudId), svgCloud(cloudId + 1),
                           svgCloud(cloudId + 2) >>,
              lanterns |-> << svgLantern(0), svgLantern(0) >>,
              bottom |-> << >>]
  /\ cloudId' = cloudId + 3
  /\ lanternId' = 1
  /\ pc' = "bars"
  /\ UNCHANGED <<days, bars, nDraws, creature, parts, pathD>>
  /\ UNCHANGED inputVars
  /\ UNCHANGED processVars
  /\ UNCHANGED walkVars

\* Lines 1342-1343: the grid cell of a day.
weekOf(d) == totalWeeks - (diffDays(d.date, gridStart) \div 7)
dowOf(d) == getUTCDay(d.date)

\* The comparator taking the later week first.
compareWeekDescending(a, b) == IF a[1] # b[1] THEN b[1] - a[1] ELSE a[2] - b[2]

\* Lines 1355-1362: the comparator of the bars' sort, on the cells
\* <<week, dow>> of two days.
compare(a, b) == IF a[1] # b[1] THEN a[1] - b[1] ELSE a[2] - b[2]

\* Line 1355, [...days].sort(compare), a stable sort, on the cells of the
\* days: position r holds the index of the day with r - 1 days before it,
\* those that compare lower and those that compare equal and came earlier.
sorted(cells) ==
  Only({ [r \in 1..Len(cells) |-> CHOOSE k \in 1..Len(cells) : before[k] = r - 1] :
         before \in { [k \in 1..Len(cells) |->
                         Cardinality({ j \in 1..Len(cells) :
                           \/ compare(cells[j], cells[k]) < 0
                           \/ compare(cells[j], cells[k]) = 0 /\ j < k })] } })

\* Lines 1341-1349: the floor tile pushed for a day, named by its cell.
floorTile(d) == << "floor", weekOf(d), dowOf(d) >>

\* The elements of a bar with the top face pushed first.
barFacesTopFirst(b) ==
  << << "top", b.w, b.d >>, << "shadow", b.w, b.d >>, << "lit", b.w, b.d >>,
     << "edge", b.w, b.d >>, << "shimmer", b.w, b.d >> >>

\* Lines 1391-1401: the elements pushed for a bar, named by its cell: the
\* right (shadow) face, the left (lit) face, the edge highlight of the left
\* face, the top face and the shimmer line.
barFaces(b) ==
  << << "shadow", b.w, b.d >>, << "lit", b.w, b.d >>, << "edge", b.w, b.d >>,
     << "top", b.w, b.d >>, << "shimmer", b.w, b.d >> >>

\* The sequences of ss one after the other, each of them of n elements.
Flatten(ss, n) ==
  [k \in 1..(n * Len(ss)) |-> ss[((k - 1) \div n) + 1][((k - 1) % n) + 1]]

\* Lines 1338-1402: a floor tile pushed for every day, in the order of the
\* series; then the days sorted, and the elements of a bar pushed for every
\* day with a positive count, in the sorted order.
Bars ==
  /\ pc = "bars"
  /\ \E cells \in { [k \in 1..Len(days) |-> << weekOf(days[k]), dowOf(days[k]) >>] } :
       \E order \in { sorted(cells) } :
         \E bs \in { SelectSeq([r \in 1..Len(order) |->
                                  [w |-> cells[order[r]][1],
                                   d |-> cells[order[r]][2],
                                   count |-> days[order[r]].count]],
                               LAMBDA b : ~(b.count <= 0)) } :
           /\ bars' = bs
           /\ parts' = [k \in 1..Len(days) |-> floorTile(days[k])]
                         \o Flatten([n \in 1..Len(bs) |-> barFaces(bs[n])], 5)
  /\ pc' = "dragon"
  /\ UNCHANGED <<days, doc, nDraws, creature, pathD>>
  /\ UNCHANGED inputVars
  /\ UNCHANGED processVars
  /\ UNCHANGED globalVars
  /\ UNCHANGED renderVars
  /\ UNCHANGED walkVars

-----------------------------------------------------------------------------
(* render: isometric projection *)

width == 950
cellW == 13
\* cellH = 6.5, doubled.
cellH2 == 13
maxBarH == 40
gridTopY == 50

\* Screen coordinates are kept exact as integers in units of 1/(2 * max) of a
\* pixel, max being the largest count (1/2 pixel when every count is 0): the
\* source's doubles round count / max, the model does not.
UnitsPerHalfPx == IF levels.max > 0 THEN levels.max ELSE 1

\* isoX taking week + dow in place of week - dow.
isoXSum(week, dow) == UnitsPerHalfPx * (width \div 2 + (week + dow) * 2 * cellW)

\* gridCX = width * 0.25 is width / 2 half pixels.
isoX(week, dow) == UnitsPerHalfPx * (width \div 2 + (week - dow) * 2 * cellW)
isoY(week, dow) == UnitsPerHalfPx * (2 * gridTopY + (week + dow) * cellH2)

\* ratio * maxBarH with ratio = max > 0 ? count / max : 0.
barH(count) == IF levels.max > 0 THEN 2 * count * maxBarH ELSE 0

-----------------------------------------------------------------------------
(* render: the dragon's walk *)

historyLen == 32
steps == 80

\* A start week inside the bar zone, weeks 0..7.
startWBarZone == 2 * 3

startW == 20

\* A start row taken from the module-level cloud counter.
startDFromCloudId == 5 - ((cloudId \div 6) % 2)

startD == 5

\* The move table with a step of two weeks in place of the first move.
movesWithJump ==
  << [dw |-> 2, dd |-> 0], [dw |-> -1, dd |-> 0],
     [dw |-> 0, dd |-> 1], [dw |-> 0, dd |-> -1],
     [dw |-> 1, dd |-> 1], [dw |-> 1, dd |-> -1],
     [dw |-> -1, dd |-> 1], [dw |-> -1, dd |-> -1] >>

moves ==
  << [dw |-> 1, dd |-> 0], [dw |-> -1, dd |-> 0],
     [dw |-> 0, dd |-> 1], [dw |-> 0, dd |-> -1],
     [dw |-> 1, dd |-> 1], [dw |-> 1, dd |-> -1],
     [dw |-> -1, dd |-> 1], [dw |-> -1, dd |-> -1] >>

\* getPt raising a cell without a bar by maxBarH.
getPtDefaultMax(bhm, w, d) ==
  [x |-> isoX(w, d),
   y |-> isoY(w, d) - (IF << w, d >> \in DOMAIN bhm THEN bhm[<< w, d >>]
                       ELSE 2 * UnitsPerHalfPx * maxBarH),
   w |-> w, d |-> d]

\* getPt leaving every cell on the floor.
getPtFlat(bhm, w, d) == [x |-> isoX(w, d), y |-> isoY(w, d), w |-> w, d |-> d]

\* getPt over the bar heights bhm.
getPt(bhm, w, d) ==
  [x |-> isoX(w, d),
   y |-> isoY(w, d) - (IF << w, d >> \in DOMAIN bhm THEN bhm[<< w, d >>] ELSE 0),
   w |-> w, d |-> d]

\* Lines 1408-1415: the days with a positive count, keyed by cell; a later day
\* of the same cell overwrites an earlier one.
BarHeights(pos) ==
  [c \in { << weekOf(days[k]), dowOf(days[k]) >> : k \in pos } |->
     barH(days[CHOOSE k \in pos :
                 /\ << weekOf(days[k]), dowOf(days[k]) >> = c
                 /\ \A j \in pos :
                      << weekOf(days[j]), dowOf(days[j]) >> = c => j <= k].count)]

\* Lines 1407-1449.
DragonSetup ==
  /\ pc = "dragon"
  /\ \E bhm \in { Only({ BarHeights(pos) :
                          pos \in { { k \in 1..Len(days) : days[k].count > 0 } } }) } :
       /\ barHeightMap' = bhm
       /\ waypoints' = << getPt(bhm, startW, startD) >>
  /\ currW' = startW
  /\ currD' = startD
  /\ recentHistory' = << >>
  /\ lastDw' = 0
  /\ lastDd' = 0
  /\ i' = 0
  /\ pc' = "walk"
  /\ UNCHANGED <<days, doc, bars, nDraws, creature, parts, pathD>>
  /\ UNCHANGED inputVars
  /\ UNCHANGED processVars
  /\ UNCHANGED globalVars
  /\ UNCHANGED renderVars

\* The bounds check letting the week totalWeeks through.
InBoundsInclusive(nw, nd) == ~(nw < 0 \/ nw > totalWeeks \/ nd < 0 \/ nd > 6)

\* Line 1467.
InBounds(nw, nd) == ~(nw < 0 \/ nw >= totalWeeks \/ nd < 0 \/ nd > 6)

\* Scores are kept in half points: Math.random() * 5 is drawn as 0 or 4.5.
jitterOf(high, k) == IF k \in high THEN 9 ELSE 0

\* Lines 1476-1479.
attraction(nw, nd) ==
  (IF nw <= 8 THEN 2 ELSE 0) + (IF nw <= 4 THEN 1 ELSE 0)
  + (IF << nw, nd >> \in DOMAIN barHeightMap THEN 15 ELSE 0)

\* The history test looking up the key with week and day swapped.
collisionSwappedKey(nw, nd) ==
  IF \E k \in 1..Len(recentHistory) : recentHistory[k] = << nd, nw >>
  THEN -1000 ELSE 0

\* Line 1482.
collision(nw, nd) ==
  IF \E k \in 1..Len(recentHistory) : recentHistory[k] = << nw, nd >>
  THEN -1000 ELSE 0

\* The momentum with the bonuses of the two branches exchanged.
momentumExchanged(m, nw, nd) ==
  IF m.dw = lastDw /\ m.dd = lastDd
  THEN 5 + (IF /\ << nw, nd >> \notin DOMAIN barHeightMap
               /\ << currW, currD >> \notin DOMAIN barHeightMap
            THEN 30 ELSE 0)
  ELSE IF m.dw = lastDw \/ m.dd = lastDd THEN 50 ELSE 0

\* Lines 1472-1473, 1485-1491.
momentum(m, nw, nd) ==
  IF m.dw = lastDw /\ m.dd = lastDd
  THEN 50 + (IF /\ << nw, nd >> \notin DOMAIN barHeightMap
                /\ << currW, currD >> \notin DOMAIN barHeightMap
             THEN 30 ELSE 0)
  ELSE IF m.dw = lastDw \/ m.dd = lastDd THEN 5 ELSE 0

\* The backward penalty testing dw + dd in place of dw - dd.
backwardSum(m) == IF (m.dw + m.dd) < 0 THEN -5000 ELSE 0

\* Lines 1494-1496.
backward(m) == IF (m.dw - m.dd) < 0 THEN -5000 ELSE 0

\* Lines 1463-1498: the candidate of move k, its score in half points.
candidate(high, k) ==
  [w |-> currW + moves[k].dw,
   d |-> currD + moves[k].dd,
   score |-> jitterOf(high, k)
             + 2 * ( attraction(currW + moves[k].dw, currD + moves[k].dd)
                   + collision(currW + moves[k].dw, currD + moves[k].dd)
                   + momentum(moves[k], currW + moves[k].dw, currD + moves[k].dd)
                   + backward(moves[k]) ),
   move |-> moves[k]]

\* The moves whose target passes the bounds check, in the order of moves.
inBoundMoves ==
  SelectSeq([k \in 1..Len(moves) |-> k],
            LAMBDA k : InBounds(currW + moves[k].dw, currD + moves[k].dd))

\* Lines 1460-1499.
candidates(high) ==
  [n \in 1..Len(inBoundMoves) |-> candidate(high, inBoundMoves[n])]

\* Line 1502: candidates.sort((a, b) => b.score - a.score), a stable sort:
\* position r holds the candidate with r - 1 candidates before it, those of a
\* higher score and those of the same score that came earlier.
sortByScore(cs) ==
  [r \in 1..Len(cs) |->
     cs[CHOOSE k \in 1..Len(cs) :
          Cardinality({ j \in 1..Len(cs) :
                          \/ cs[j].score > cs[k].score
                          \/ cs[j].score = cs[k].score /\ j < k }) = r - 1]]

\* The cutoff below the history penalty.
isValidBelowHistory(c) == c.score > 2 * (-1500)

\* Line 1505, the cutoff -500 in half points.
isValid(c) == c.score > 2 * (-500)

\* Lines 1502-1505.
validOf(high) ==
  Only({ SelectSeq(sortByScore(cs), isValid) : cs \in { candidates(high) } })

\* The slice taking four candidates.
topKOfFour(vs) == SubSeq(vs, 1, IF Len(vs) < 4 THEN Len(vs) ELSE 4)

\* Line 1508.
topKOf(vs) == SubSeq(vs, 1, IF Len(vs) < 3 THEN Len(vs) ELSE 3)

\* The sets of candidates of which all, and no others, draw the high jitter.
JitterSets ==
  { h \in SUBSET { inBoundMoves[n] : n \in 1..Len(inBoundMoves) } :
      Cardinality(h) <= MaxHighJitter }

\* The candidates that may draw the high jitter in this iteration.
HighSets == IF i < MaxRandomSteps THEN JitterSets ELSE { {} }

\* The values Math.floor(Math.random() * n) may take in this iteration.
PickSet(n) == IF i < MaxRandomSteps THEN 0..(n - 1) ELSE { 0 }

\* The push that drops the new key once the buffer is full.
pushHistoryDropNewest(h, key) ==
  IF Len(h) + 1 > historyLen THEN h ELSE Append(h, key)

\* Lines 1516-1518.
pushHistory(h, key) ==
  IF Len(h) + 1 > historyLen THEN Tail(Append(h, key)) ELSE Append(h, key)

\* The step to choice with its waypoint pushed twice.
commitTwoPoints(choice) ==
  /\ currW' = choice.w
  /\ currD' = choice.d
  /\ lastDw' = choice.move.dw
  /\ lastDd' = choice.move.dd
  /\ recentHistory' = pushHistory(recentHistory, << choice.w, choice.d >>)
  /\ waypoints' = Append(Append(waypoints, getPt(barHeightMap, choice.w, choice.d)),
                         getPt(barHeightMap, choice.w, choice.d))
  /\ i' = i + 1
  /\ UNCHANGED <<pc, days, barHeightMap, doc, bars, creature, parts, pathD>>
  /\ UNCHANGED inputVars
  /\ UNCHANGED processVars
  /\ UNCHANGED globalVars
  /\ UNCHANGED renderVars

\* Lines 1509-1520: the step to choice, the candidate Math.random picked.
commit(choice) ==
  /\ currW' = choice.w
  /\ currD' = choice.d
  /\ lastDw' = choice.move.dw
  /\ lastDd' = choice.move.dd
  /\ recentHistory' = pushHistory(recentHistory, << choice.w, choice.d >>)
  /\ waypoints' = Append(waypoints, getPt(barHeightMap, choice.w, choice.d))
  /\ i' = i + 1
  /\ UNCHANGED <<pc, days, barHeightMap, doc, bars, creature, parts, pathD>>
  /\ UNCHANGED inputVars
  /\ UNCHANGED processVars
  /\ UNCHANGED globalVars
  /\ UNCHANGED renderVars

\* Lines 1451-1520: an iteration that commits a step, its random draws any
\* of those HighSets and PickSet allow.
WalkStep ==
  /\ pc = "walk"
  /\ rng = "free"
  /\ i < steps
  /\ \E high \in HighSets :
       \E vs \in { validOf(high) } :
         /\ Len(vs) > 0
         /\ \E topK \in { topKOf(vs) } :
              \E r \in PickSet(Len(topK)) : commit(topK[r + 1])
  /\ UNCHANGED nDraws

\* The draws of a run that advances as little as it can: no candidate, or
\* one candidate, draws the high jitter.
SlowSets ==
  { {} } \cup { { inBoundMoves[n] } : n \in 1..Len(inBoundMoves) }

\* The candidates some draws of this iteration choose: for every set of
\* SlowSets, the candidates of topK.
choices ==
  UNION { Only({ { topK[r] : r \in 1..Len(topK) } :
                 topK \in { topKOf(validOf(high)) } }) : high \in SlowSets }

\* Lines 1451-1520: an iteration that commits a step, its random draws, in
\* every iteration, any of those that choose a candidate of the least forward
\* progress that can be chosen.
WalkStepSlow ==
  /\ pc = "walk"
  /\ rng = "slow"
  /\ i < steps
  /\ \E cs \in { choices } :
       \E c \in cs :
         /\ \A o \in cs : c.move.dw - c.move.dd <= o.move.dw - o.move.dd
         /\ commit(c)
  /\ UNCHANGED nDraws

\* The value, in tenths, of the n-th call of Math.random() of a run fed from
\* stream sd: constantly 0, constantly 0.9, 0.9 at every odd call, 0.9 at
\* every third call.
randomAt(sd, n) ==
  CASE sd = 0 -> 0
    [] sd = 1 -> 9
    [] sd = 2 -> IF n % 2 = 1 THEN 9 ELSE 0
    [] OTHER  -> IF n % 3 = 0 THEN 9 ELSE 0

Seeds == 0..3

\* Line 1470 in a seeded run: the candidates are scored in the order of
\* moves, each taking the next value of the stream; those that get 0.9 have
\* the jitter 4.5.
seededHigh ==
  { inBoundMoves[n] : n \in { m \in 1..Len(inBoundMoves) :
                                randomAt(seed, nDraws + m) = 9 } }

\* Line 1509 in a seeded run: Math.floor(Math.random() * n), the draw being
\* the one after the candidates' jitters.
seededPick(n) == (randomAt(seed, nDraws + Len(inBoundMoves) + 1) * n) \div 10

\* Lines 1451-1520: an iteration that commits a step, its random draws taken
\* from the stream.
WalkStepSeeded ==
  /\ pc = "walk"
  /\ rng = "stream"
  /\ i < steps
  /\ \E vs \in { validOf(seededHigh) } :
       /\ Len(vs) > 0
       /\ \E topK \in { topKOf(vs) } : commit(topK[seededPick(Len(topK)) + 1])
  /\ nDraws' = nDraws + Len(inBoundMoves) + 1

\* Lines 1451, 1521-1523: the loop ends, its budget spent or no candidate
\* left above the cutoff.
WalkEnd ==
  /\ pc = "walk"
  /\ \/ i >= steps
     \/ \E high \in HighSets : Len(validOf(high)) = 0
  /\ pc' = "done"
  /\ UNCHANGED <<days, doc, bars, nDraws, creature, parts, pathD>>
  /\ UNCHANGED inputVars
  /\ UNCHANGED processVars
  /\ UNCHANGED globalVars
  /\ UNCHANGED renderVars
  /\ UNCHANGED walkVars

\* Line 1547: the body segments of the creature.
segCount == 24

\* The test letting any waypoint sequence through.
creatureLayerAlways(wps) == Len(wps) >= 1

\* Line 1529: the creature layer is built when there are 4 waypoints or more.
creatureLayer(wps) == Len(wps) >= 4

\* The curve segment with both control points at 0.4 of the way along x.
segmentOneOffset(prev, curr) ==
  [cpx1 |-> 10 * prev.x + 4 * (curr.x - prev.x), cpy1 |-> 10 * prev.y,
   cpx2 |-> 10 * prev.x + 4 * (curr.x - prev.x), cpy2 |-> 10 * curr.y,
   x |-> 10 * curr.x, y |-> 10 * curr.y]

\* Lines 1533-1540: the cubic segment from waypoint prev to waypoint curr,
\* its numbers in tenths of the unit of the screen coordinates (the source's
\* doubles round the products by 0.4 and 0.6, the model does not).
segment(prev, curr) ==
  [cpx1 |-> 10 * prev.x + 4 * (curr.x - prev.x), cpy1 |-> 10 * prev.y,
   cpx2 |-> 10 * prev.x + 6 * (curr.x - prev.x), cpy2 |-> 10 * curr.y,
   x |-> 10 * curr.x, y |-> 10 * curr.y]

\* Lines 1531-1541: the path description, the move to the first waypoint and
\* one segment for every later waypoint.
pathOf(wps) ==
  [M |-> << 10 * wps[1].x, 10 * wps[1].y >>,
   C |-> [k \in 1..(Len(wps) - 1) |-> segment(wps[k], wps[k + 1])]]

\* No path description: the creature layer is not built.
NoPath == [M |-> << >>, C |-> << >>]

\* Lines 1529-1674: the creature layer (motion path, tail, body, head) when
\* there are at least 4 waypoints, the three clouds of the bottom, each
\* taking the next id of the module-level counter, and the document returned.
RenderTail ==
  /\ pc = "done"
  /\ creature' = creatureLayer(waypoints)
  /\ pathD' = IF creatureLayer(waypoints) THEN pathOf(waypoints) ELSE NoPath
  /\ doc' = [doc EXCEPT !.bottom = << svgCloud(cloudId), svgCloud(cloudId + 1),
                                       svgCloud(cloudId + 2) >>]
  /\ cloudId' = cloudId + 3
  /\ pc' = "returned"
  /\ UNCHANGED <<lanternId, days, bars, nDraws, parts>>
  /\ UNCHANGED inputVars
  /\ UNCHANGED processVars
  /\ UNCHANGED renderVars
  /\ UNCHANGED walkVars

\* What a call of render returned: the parts that carry an id, the bars, the
\* waypoints of the motion path and whether the creature layer is there.
returned ==
  [doc |-> doc, bars |-> bars, waypoints |-> waypoints, creature |-> creature,
   pathD |-> pathD]

\* render is called a second time by the same process, on the same day
\* series, with Math.random() fed from the start of the same stream.
RenderAgain ==
  /\ pc = "returned"
  /\ call = 1
  /\ first' = returned
  /\ call' = 2
  /\ nDraws' = 0
  /\ pc' = "render"
  /\ UNCHANGED <<exitCode, written, days, doc, bars, creature, parts, pathD>>
  /\ UNCHANGED inputVars
  /\ UNCHANGED globalVars
  /\ UNCHANGED renderVars
  /\ UNCHANGED walkVars

-----------------------------------------------------------------------------
(* Specifications *)

\* The state of a process before main has run: the module-level counters at
\* 0, nothing rendered.
InitState ==
  /\ exitCode = 0
  /\ written = FALSE
  /\ cloudId = 0
  /\ lanternId = 0
  /\ call = 1
  /\ first = << >>
  /\ doc = [clouds |-> << >>, lanterns |-> << >>, bottom |-> << >>]
  /\ bars = << >>
  /\ nDraws = 0
  /\ creature = FALSE
  /\ parts = << >>
  /\ pathD = NoPath
  /\ levels = [max |-> 0, q |-> << >>]
  /\ s = [total |-> 0, max |-> 0, current |-> 0, best |-> 0]
  /\ gridStart = 0
  /\ totalWeeks = 0
  /\ barHeightMap = << >>
  /\ currW = 0
  /\ currD = 0
  /\ lastDw = 0
  /\ lastDd = 0
  /\ recentHistory = << >>
  /\ waypoints = << >>
  /\ i = 0

InitCommon ==
  /\ pc = "main"
  /\ days = << >>
  /\ InitState

\* The classifier, the summary and the grid over every window main can
\* produce, with counts 0..MaxCount on the dates of DataDates, and over the
\* end-to-end scenario.
InitData ==
  /\ end \in EndDates
  /\ duration \in Durations
  /\ \/ map \in [DataDates(end, duration) -> 0..MaxCount]
     \/ /\ IsScenarioWindow(end, duration)
        /\ map = ScenarioMap(end, duration)
  /\ username = "octocat"
  /\ httpOk = TRUE
  /\ rng = "free"
  /\ seed = 0
  /\ InitCommon

NextData == Main \/ RenderHead

SpecData == InitData /\ [][NextData]_vars

\* The end dates of the runs of Spec: 2026-01-03, a Saturday (52 and 25
\* weeks), and 2026-01-04, a Sunday (53 and 26 weeks).
WalkEndDates == { 20456, 20457 }

\* The date whose day lies on cell (w, d) of a window ending on e.
dateOfCell(e, w, d) == e - 7 * w - getUTCDay(e) + d

\* The dates whose counts the fetched page sets in a run of Spec: the days of
\* the cells (21, 4) and (22, 3), next to the walk's start.
BarDates(e) == { dateOfCell(e, 21, 4), dateOfCell(e, 22, 3) }

\* A run of the program: with or without a --username value, the response
\* OK or not, the page with the counts of BarDates or with no date at all;
\* or a run over a window without a bar in which Math.random() draws so that
\* the walk advances as little as it can.
Init ==
  /\ end \in WalkEndDates
  /\ duration \in Durations
  /\ \/ /\ rng = "free"
        /\ map \in [BarDates(end) -> { 0, 1, MaxCount }] \cup { << >> }
        /\ username \in { "", "octocat" }
        /\ httpOk \in BOOLEAN
     \/ /\ rng = "slow"
        /\ end = 20456
        /\ map = [d \in BarDates(end) |-> 0]
        /\ username = "octocat"
        /\ httpOk = TRUE
  /\ seed = 0
  /\ InitCommon

Next ==
  \/ Main
  \/ MainFail
  \/ RenderHead
  \/ Bars
  \/ DragonSetup
  \/ WalkStep
  \/ WalkStepSlow
  \/ WalkEnd
  \/ RenderTail
  \/ Write

Spec == Init /\ [][Next]_vars

\* The cells whose days carry the bars of a run of SpecBars: cells that share
\* a screen column, cells one column apart and cells two columns apart.
BarCells == { << 10, 2 >>, << 11, 3 >>, << 10, 3 >>, << 11, 2 >>, << 12, 2 >> }

\* The bars over every window of WalkEndDates, with any subset of BarCells
\* raised, or with a bar on every day of the window.
InitBars ==
  /\ end \in WalkEndDates
  /\ duration \in Durations
  /\ \/ map \in [{ dateOfCell(end, c[1], c[2]) : c \in BarCells } -> { 0, MaxCount }]
     \/ map = [d \in startOf(end, duration)..end |-> 1]
  /\ username = "octocat"
  /\ httpOk = TRUE
  /\ rng = "free"
  /\ seed = 0
  /\ InitCommon

NextBars == Main \/ RenderHead \/ Bars

SpecBars == InitBars /\ [][NextBars]_vars

\* The first days of the series render is called on directly in a run of
\* SpecRender, for a series that ends on the Saturday e: grids of 0, 19 and 20
\* weeks, and the half-year and full-year windows of main.
RenderStarts(e) ==
  { e - 6, e - 139, e - 146, startOf(e, "half-year"), startOf(e, "full-year") }

\* render called twice by one process on a day series, Math.random() fed
\* from a stream of Seeds. The day of cell (20, 3) lies in the oldest week of
\* the grid of 20 weeks.
InitRender ==
  /\ end = 20456
  /\ duration = "full-year"
  /\ map \in [{ end - 1, dateOfCell(end, 21, 4), dateOfCell(end, 20, 3) }
               -> { 0, MaxCount }]
  /\ username = "octocat"
  /\ httpOk = TRUE
  /\ rng = "stream"
  /\ seed \in Seeds
  /\ pc = "render"
  /\ \E start \in RenderStarts(end) : days = daysOf(start, end, map)
  /\ InitState

NextRender ==
  \/ RenderHead
  \/ Bars
  \/ DragonSetup
  \/ WalkStepSeeded
  \/ WalkEnd
  \/ RenderTail
  \/ RenderAgain

SpecRender == InitRender /\ [][NextRender]_vars

-----------------------------------------------------------------------------
(* Properties *)

Abs(n) == IF n < 0 THEN -n ELSE n

Chebyshev(a, b) ==
  IF Abs(a.w - b.w) >= Abs(a.d - b.d) THEN Abs(a.w - b.w) ELSE Abs(a.d - b.d)

progress(p) == p.w - p.d

\* How far a waypoint is raised above the floor of its cell.
elevation(p) == isoY(p.w, p.d) - p.y

\* render has computed the classifier, the summary and the grid.
Rendered == pc \notin { "main", "failed", "render" }

AllZero == \A k \in 1..Len(days) : days[k].count = 0

PosIdx == { k \in 1..Len(days) : days[k].count > 0 }

\* The day series of the end-to-end scenario: 366 days, days[100] and
\* days[101] (from 0) with count 5, every other day with count 0.
IsScenario ==
  /\ Len(days) = 366
  /\ \A k \in 1..Len(days) : days[k].count = (IF k \in { 101, 102 } THEN 5 ELSE 0)

level(count) == LevelOf(levelColor(levels, count))

\* C1: every two consecutive waypoints are grid-adjacent, the Chebyshev
\* distance between their cells being exactly 1.
C1_Adjacent ==
  \A k \in 1..(Len(waypoints) - 1) : Chebyshev(waypoints[k], waypoints[k + 1]) = 1

\* A finished walk that took both an orthogonal and a diagonal step.
C1_Witness ==
  /\ pc = "done"
  /\ \E k \in 1..(Len(waypoints) - 1) :
       Abs(waypoints[k + 1].w - waypoints[k].w) + Abs(waypoints[k + 1].d - waypoints[k].d) = 1
  /\ \E k \in 1..(Len(waypoints) - 1) :
       Abs(waypoints[k + 1].w - waypoints[k].w) + Abs(waypoints[k + 1].d - waypoints[k].d) = 2

\* C2: forward progress week - dayOfWeek never decreases from a waypoint to
\* the next.
C2_ForwardProgress ==
  \A k \in 1..(Len(waypoints) - 1) :
    progress(waypoints[k + 1]) >= progress(waypoints[k])

\* A finished walk over a grid with bars that took a step of progress 0, one
\* of progress 1 and one of progress 2.
C2_Witness ==
  /\ pc = "done"
  /\ DOMAIN barHeightMap # {}
  /\ \A g \in 0..2 :
       \E k \in 1..(Len(waypoints) - 1) :
         progress(waypoints[k + 1]) - progress(waypoints[k]) = g

\* C3: no two waypoints at most historyLen positions apart, the initial
\* waypoint included, lie on the same cell.
C3_NoRecentRevisit ==
  \A j \in 1..Len(waypoints) : \A k \in 1..Len(waypoints) :
    (j < k /\ k - j <= historyLen) =>
      << waypoints[j].w, waypoints[j].d >> # << waypoints[k].w, waypoints[k].d >>

\* C4, as stated: over an all-zero day series a finished walk has committed
\* all of its steps, and every waypoint is flat.
C4_FullBudget ==
  (pc = "done" /\ AllZero) =>
    /\ i = steps
    /\ Len(waypoints) = steps + 1
    /\ \A k \in 1..Len(waypoints) : elevation(waypoints[k]) = 0

\* C4, amended: over an all-zero day series the walk commits at most steps
\* steps, one waypoint each after the initial one, every waypoint is flat, and
\* a walk that ends before its budget is spent ends in the corner cell
\* (totalWeeks - 1, 0).
C4_AllZeroWalk ==
  (pc \in { "walk", "done" } /\ AllZero) =>
    /\ i <= steps
    /\ Len(waypoints) = i + 1
    /\ \A k \in 1..Len(waypoints) : elevation(waypoints[k]) = 0
    /\ (pc = "done" /\ i < steps) => (currW = totalWeeks - 1 /\ currD = 0)

\* A walk over an all-zero series that ended before its budget was spent.
C4_Witness == pc = "done" /\ AllZero /\ i < steps /\ Len(waypoints) > 1

\* C5, as stated: in the end-to-end scenario count 5 classifies to level 4,
\* and whenever all positive counts are equal their value classifies to
\* level 4.
C5_PeakLevel ==
  Rendered =>
    /\ IsScenario => level(5) = 4
    /\ \A k \in PosIdx :
         (\A j \in PosIdx : days[j].count = days[k].count) => level(days[k].count) = 4

\* C5, amended: in the end-to-end scenario count 5 classifies to level 1, and
\* whenever all positive counts are equal their value classifies to level 1.
C5_EqualCountsLevelOne ==
  Rendered =>
    /\ IsScenario => level(5) = 1
    /\ \A k \in PosIdx :
         (\A j \in PosIdx : days[j].count = days[k].count) => level(days[k].count) = 1

\* The end-to-end scenario, rendered.
C5_Witness == Rendered /\ IsScenario /\ levels.q = << 5, 5, 5 >>

\* The days at the end of the series that all have a positive count.
TrailingRun ==
  Len(days) - (CHOOSE z \in 0..Len(days) :
                 /\ z = 0 \/ days[z].count <= 0
                 /\ \A k \in (z + 1)..Len(days) : days[k].count > 0)

\* C6, as stated: in the end-to-end scenario the current streak is 2.
C6_CurrentStreakTwo == (Rendered /\ IsScenario) => s.current = 2

\* C6, amended: in the end-to-end scenario the current streak is 0; the
\* current streak is the length of the run of positive days that ends with
\* the last day of the series.
C6_CurrentStreak ==
  Rendered =>
    /\ IsScenario => s.current = 0
    /\ s.current = TrailingRun

\* The end-to-end scenario, its summary computed.
C6_Witness == Rendered /\ IsScenario /\ s.best = 2 /\ days[Len(days)].count = 0

\* The counts as units: one pair per unit of every positive day.
TotalUnits ==
  Cardinality(UNION { { << k, u >> : u \in 1..days[k].count } : k \in PosIdx })

LargestCount ==
  CHOOSE m \in { 0 } \cup { days[k].count : k \in PosIdx } :
    \A k \in PosIdx : days[k].count <= m

IsRun(pos, a, n) == \A k \in a..(a + n - 1) : k \in pos

LongestRun ==
  Only({ CHOOSE n \in 0..Cardinality(pos) :
           /\ n = 0 \/ \E a \in pos : IsRun(pos, a, n)
           /\ ~ \E a \in pos : IsRun(pos, a, n + 1) : pos \in { PosIdx } })

\* C7: total is the sum of the counts, max the largest count and best the
\* length of the longest run of consecutive positive days; 10, 5 and 2 in the
\* end-to-end scenario.
C7_Summary ==
  Rendered =>
    /\ IsScenario => (s.total = 10 /\ s.max = 5 /\ s.best = 2)
    /\ s.total = TotalUnits
    /\ s.max = LargestCount
    /\ s.best = LongestRun

\* The end-to-end scenario, its summary computed.
C7_Witness == Rendered /\ IsScenario /\ s.total = 10

\* C8: the grid cell of every day lies in [0, totalWeeks) x [0, 6].
C8_CellsInGrid ==
  Rendered =>
    \A k \in 1..Len(days) :
      /\ 0 <= weekOf(days[k]) /\ weekOf(days[k]) < totalWeeks
      /\ 0 <= dowOf(days[k]) /\ dowOf(days[k]) <= 6

\* C9: the level is one of 0..4 and never decreases as the count grows.
C9_Monotone ==
  Rendered =>
    \A a \in -1..(MaxCount + 4) : \A b \in -1..(MaxCount + 4) :
      /\ level(a) \in 0..4
      /\ a <= b => level(a) <= level(b)

\* A series whose counts 1, 2 and 3 classify to three different levels.
C9_Witness ==
  Rendered /\ level(0) = 0 /\ level(1) = 1 /\ level(2) = 2 /\ level(3) = 4

\* C10: with a positive count in the series the thresholds are ordered and
\* each is one of the positive counts.
C10_Thresholds ==
  (Rendered /\ PosIdx # {}) =>
    /\ Len(levels.q) = 3
    /\ levels.q[1] <= levels.q[2] /\ levels.q[2] <= levels.q[3]
    /\ \A n \in 1..3 : \E k \in PosIdx : days[k].count = levels.q[n]

\* A series with four positive counts whose thresholds are not all equal.
C10_Witness ==
  Rendered /\ Cardinality(PosIdx) = 4 /\ levels.q[1] < levels.q[3]

\* C11: a count of 0 or less classifies to level 0 whatever the thresholds,
\* and over a series without a positive count every count classifies to
\* level 0.
C11_LevelZero ==
  Rendered =>
    /\ \A c \in -2..0 : level(c) = 0
    /\ PosIdx = {} => \A c \in -2..(MaxCount + 4) : level(c) = 0

\* A series with thresholds, under which count 0 classifies to level 0 and
\* the lowest threshold to level 1.
C11_Witness ==
  Rendered /\ PosIdx # {} /\ level(0) = 0 /\ level(levels.q[1]) = 1

\* main has built the day series.
Built == pc \notin { "main", "failed" }

\* C12: the day series has one entry for every date from start to end, in
\* ascending order without a gap, diffDays(end, start) + 1 in all, start
\* being the Sunday on or before end - lookback (lookback 365 for full-year,
\* 180 for half-year); an entry's count is the map's value for its date, 0
\* when the map lacks the date.
C12_DaySeries ==
  Built =>
    /\ Len(days) > 0
    /\ getUTCDay(days[1].date) = 0
    /\ days[1].date <= end - (IF duration = "full-year" THEN 365 ELSE 180)
    /\ days[1].date > end - (IF duration = "full-year" THEN 365 ELSE 180) - 7
    /\ days[Len(days)].date = end
    /\ Len(days) = diffDays(end, days[1].date) + 1
    /\ \A k \in 1..(Len(days) - 1) : days[k + 1].date = days[k].date + 1
    /\ \A k \in 1..Len(days) :
         days[k].count = (IF days[k].date \in DOMAIN map THEN map[days[k].date] ELSE 0)

\* The longest window main builds (371 days), with a day whose count comes
\* from the map and a day the map lacks.
C12_Witness ==
  /\ Built
  /\ Len(days) = 371
  /\ \E k \in 1..Len(days) : days[k].date \in DOMAIN map /\ days[k].count > 0
  /\ \E k \in 1..Len(days) : days[k].date \notin DOMAIN map

\* C13: distinct days lie on distinct cells, and distinct cells of the grid
\* are projected to distinct screen positions.
C13_Injective ==
  Rendered =>
    /\ Cardinality({ << weekOf(days[k]), dowOf(days[k]) >> : k \in 1..Len(days) })
         = Len(days)
    /\ Cardinality({ << isoX(c[1], c[2]), isoY(c[1], c[2]) >> :
                       c \in (0..totalWeeks) \X (0..6) })
         = (totalWeeks + 1) * 7

\* A window of 53 weeks whose first Sunday and second Monday are drawn on the
\* same screen row, at different positions.
C13_Witness ==
  /\ Rendered
  /\ totalWeeks = 53
  /\ isoY(weekOf(days[1]), dowOf(days[1])) = isoY(weekOf(days[9]), dowOf(days[9]))
  /\ isoX(weekOf(days[1]), dowOf(days[1])) # isoX(weekOf(days[9]), dowOf(days[9]))

\* Two bars overlap horizontally on screen: their columns week - dow are less
\* than 2 apart.
Overlap(a, b) == Abs((a.w - a.d) - (b.w - b.d)) < 2

depth(b) == b.w + b.d

C15_SameDocument == (call = 2 /\ pc = "returned") => returned = first

C18_CreatureLayer ==
  /\ pc = "returned" =>
       /\ creature = (Len(waypoints) >= 4)
       /\ Len(doc.clouds) = 3
       /\ Len(doc.bottom) = 3
  /\ (pc = "done" /\ Len(waypoints) < 4) => ENABLED RenderTail

\* render returned a document without the creature layer, the walk having
\* left fewer than 4 waypoints.
C18_Witness == pc = "returned" /\ Len(waypoints) < 4 /\ ~creature

\* An input main fails on: no --username value, a response that is not OK,
\* or a page without a date.
FatalInput == username = "" \/ ~httpOk \/ DOMAIN map = {}

\* C17: on a fatal error the run ends with a non-zero exit code and without
\* having written the output file, and it takes no step other than the one
\* that ends it; the file is written only once parsing, fetch and render
\* have succeeded.
C17_FatalNoOutput ==
  /\ FatalInput =>
       /\ pc \in { "main", "failed" }
       /\ ~written
       /\ pc = "main" => (ENABLED MainFail /\ ~ENABLED Main)
       /\ pc = "failed" => exitCode # 0
  /\ written => (~FatalInput /\ pc = "exit" /\ exitCode = 0 /\ Len(days) > 0)

\* A run that failed on a page without a date, the --username value given
\* and the response OK.
C17_Witness ==
  pc = "failed" /\ exitCode = 1 /\ username # "" /\ httpOk /\ DOMAIN map = {}

\* The walk's loop has been left.
WalkOver == pc \in { "done", "returned", "exit" }

\* C19: the walk ends: every iteration that stays in the loop commits a
\* step and counts one of at most steps iterations, the loop can be left
\* whenever no step can be committed, and it is left when the budget is spent
\* or at the first iteration no candidate survives the cutoff in; the
\* waypoints are then the initial one and one for every committed step, 81 at
\* most, no more are added, and the run goes on without an error.
C19_WalkEnds ==
  /\ [](pc = "walk" =>
          /\ i <= steps
          /\ Len(waypoints) = i + 1
          /\ (i < steps /\ Len(validOf({})) > 0) \/ ENABLED WalkEnd)
  /\ [](WalkOver =>
          /\ i = steps \/ Len(validOf({})) = 0
          /\ Len(waypoints) = i + 1
          /\ Len(waypoints) <= steps + 1
          /\ exitCode = 0
          /\ pc = "exit" \/ ENABLED RenderTail \/ ENABLED Write)
  /\ [][(pc = "walk" /\ pc' = "walk") =>
          (i < steps /\ i' = i + 1 /\ Len(validOf({})) > 0)]_vars
  /\ [][(pc = "walk" /\ pc' # "walk") =>
          (pc' = "done" /\ (i = steps \/ Len(validOf({})) = 0))]_vars
  /\ [][WalkOver => (WalkOver' /\ waypoints' = waypoints /\ i' = i)]_vars

\* A run that wrote its document after a walk over a grid with a bar that
\* was trapped before its budget was spent.
C19_Witness ==
  /\ pc = "exit"
  /\ written
  /\ i < steps
  /\ Len(validOf({})) = 0
  /\ DOMAIN barHeightMap # {}

\* Move k leads to a cell inside the grid that is not in the recent history,
\* and its forward progress dw - dd is not negative.
Admissible(k) ==
  /\ InBounds(currW + moves[k].dw, currD + moves[k].dd)
  /\ \A h \in 1..Len(recentHistory) :
       recentHistory[h] # << currW + moves[k].dw, currD + moves[k].dd >>
  /\ moves[k].dw - moves[k].dd >= 0

\* C20: a move's candidate survives the cutoff exactly when its target is
\* inside the grid and not in the recent history and the move's forward
\* progress dw - dd is not negative, with the lowest and with the highest
\* jitter: the moves of the candidates left by the filter are the admissible
\* ones, and a move inside the grid scores above the cutoff, with either
\* jitter, exactly when it is admissible.
C20_Cutoff ==
  pc = "walk" =>
    \A vs \in { validOf({}) } : \A k \in 1..Len(moves) :
      /\ (\E n \in 1..Len(vs) : vs[n].move = moves[k]) <=> Admissible(k)
      /\ \A high \in { {}, { k } } :
           (/\ InBounds(currW + moves[k].dw, currD + moves[k].dd)
            /\ isValid(candidate(high, k))) <=> Admissible(k)

\* An iteration over a grid with a bar in which one move leaves the grid, one
\* forward move leads to a cell of the recent history and one repeats the
\* previous move.
C20_Witness ==
  /\ pc = "walk"
  /\ DOMAIN barHeightMap # {}
  /\ \E k \in 1..Len(moves) : ~InBounds(currW + moves[k].dw, currD + moves[k].dd)
  /\ \E k \in 1..Len(moves) :
       /\ moves[k].dw - moves[k].dd >= 0
       /\ \E h \in 1..Len(recentHistory) :
            recentHistory[h] = << currW + moves[k].dw, currD + moves[k].dd >>
  /\ \E k \in 1..Len(moves) : moves[k].dw = lastDw /\ moves[k].dd = lastDd

\* The score of move k's candidate with the jitters the iteration draws from
\* the stream.
drawnScore(k) == candidate(seededHigh, k).score

\* The survivors the sort puts before the candidate of move k: those of a
\* higher score, and those of the same score that come earlier in moves.
Ahead(k) ==
  { j \in 1..Len(moves) :
      /\ Admissible(j)
      /\ \/ drawnScore(j) > drawnScore(k)
         \/ drawnScore(j) = drawnScore(k) /\ j < k }

\* C21: at every committed step the chosen cell is one of the three
\* highest-scoring surviving candidates of the step, any survivor when fewer
\* than three survive: the chosen candidate survives the cutoff, fewer than
\* three survivors score higher than it or stand before it in the sorted
\* order, and it is one of the first three entries of the sorted survivors;
\* no survivor ranked fourth or lower is chosen.
C21_TopThree ==
  [][(pc = "walk" /\ pc' = "walk") =>
       \E k \in 1..Len(moves) :
         /\ << currW', currD' >> = << currW + moves[k].dw, currD + moves[k].dd >>
         /\ << lastDw', lastDd' >> = << moves[k].dw, moves[k].dd >>
         /\ Admissible(k)
         /\ isValid(candidate(seededHigh, k))
         /\ Cardinality({ j \in 1..Len(moves) :
                            Admissible(j) /\ drawnScore(j) > drawnScore(k) }) < 3
         /\ Cardinality(Ahead(k)) < 3
         /\ \A vs \in { validOf(seededHigh) } :
              /\ vs[Cardinality(Ahead(k)) + 1].move = moves[k]
              /\ \A n \in 4..Len(vs) : vs[n].move # moves[k]]_vars

\* A walk over a grid with a bar, fed from the stream under which every
\* candidate draws the high jitter and the pick is the last of the top
\* three, that took a turn.
C21_Witness ==
  /\ pc = "walk"
  /\ seed = 1
  /\ i >= 3
  /\ DOMAIN barHeightMap # {}
  /\ \E k \in 2..(Len(waypoints) - 1) :
       << waypoints[k + 1].w - waypoints[k].w, waypoints[k + 1].d - waypoints[k].d >>
         # << waypoints[k].w - waypoints[k - 1].w, waypoints[k].d - waypoints[k - 1].d >>

Min(a, b) == IF a <= b THEN a ELSE b

cellOf(p) == << p.w, p.d >>

\* The walk has been set up.
Walking == pc \in { "walk", "done", "returned", "exit" }

dayIndexOf(w, d) == gridStart + 7 * (totalWeeks - w) + d - days[1].date + 1

\* (count / max) * maxBarH, in the units of the screen coordinates, for a
\* cell whose day has a positive count; 0 for any other cell.
heightAt(w, d) ==
  IF dayIndexOf(w, d) \in 1..Len(days)
  THEN (IF days[dayIndexOf(w, d)].count > 0
        THEN 2 * days[dayIndexOf(w, d)].count * maxBarH ELSE 0)
  ELSE 0

\* C23: every waypoint's screen point is the projection of its cell raised
\* by the cell's bar height, x = isoX(w, d) and y = isoY(w, d) - h with
\* h = (count / max) * maxBarH when the cell's day has a positive count and
\* h = 0 otherwise; 0 <= h <= maxBarH, and over an all-zero series every
\* waypoint is flat.
C23_Elevation ==
  Walking =>
    /\ AllZero =>
         \A k \in 1..Len(waypoints) :
           waypoints[k].y = isoY(waypoints[k].w, waypoints[k].d)
    /\ \A k \in 1..Len(waypoints) :
      /\ dayIndexOf(waypoints[k].w, waypoints[k].d) \in 1..Len(days) =>
           cellOf(waypoints[k])
             = << weekOf(days[dayIndexOf(waypoints[k].w, waypoints[k].d)]),
                  dowOf(days[dayIndexOf(waypoints[k].w, waypoints[k].d)]) >>
      /\ waypoints[k].x = isoX(waypoints[k].w, waypoints[k].d)
      /\ waypoints[k].y = isoY(waypoints[k].w, waypoints[k].d)
                            - heightAt(waypoints[k].w, waypoints[k].d)
      /\ 0 <= isoY(waypoints[k].w, waypoints[k].d) - waypoints[k].y
      /\ isoY(waypoints[k].w, waypoints[k].d) - waypoints[k].y
           <= 2 * UnitsPerHalfPx * maxBarH

\* A finished walk with a waypoint on the floor, one raised by half of
\* maxBarH and one raised by maxBarH.
C23_Witness ==
  /\ pc = "done"
  /\ levels.max = 2
  /\ \E k \in 1..Len(waypoints) : elevation(waypoints[k]) = 0
  /\ \E k \in 1..Len(waypoints) : elevation(waypoints[k]) = 2 * maxBarH
  /\ \E k \in 1..Len(waypoints) :
       elevation(waypoints[k]) = 2 * UnitsPerHalfPx * maxBarH

\* The path description has one segment for every waypoint after the first,
\* the k-th ending at waypoint k, and starts at the first waypoint.
OneSegmentPerPair ==
  /\ Len(pathD.C) = Len(waypoints) - 1
  /\ pathD.M = << 10 * waypoints[1].x, 10 * waypoints[1].y >>
  /\ \A k \in 1..Len(pathD.C) :
       /\ pathD.C[k].x = 10 * waypoints[k + 1].x
       /\ pathD.C[k].y = 10 * waypoints[k + 1].y

\* The control points' x lie at 0.4 and 0.6 of the way from the previous
\* waypoint's x to the current one's.
OffsetsAlongX ==
  \A k \in 1..Len(pathD.C) :
    /\ pathD.C[k].cpx1 = 10 * waypoints[k].x + 4 * (waypoints[k + 1].x - waypoints[k].x)
    /\ pathD.C[k].cpx2 = 10 * waypoints[k].x + 6 * (waypoints[k + 1].x - waypoints[k].x)

\* The second call of render returned the path description of the first
\* call whenever it built the waypoint list of the first call.
SamePathForSameWaypoints ==
  (call = 2 /\ waypoints = first.waypoints) => pathD = first.pathD

\* C24, as stated: for a list of n >= 4 waypoints the path has n - 1 cubic
\* segments, the k-th ending at waypoint k, both control points at the
\* offsets 0.4 and 0.6 between the pair's coordinates along x and along y;
\* identical waypoint lists give identical path descriptions.
C24_OffsetsAlongBothAxes ==
  (pc = "returned" /\ Len(waypoints) >= 4) =>
    /\ OneSegmentPerPair
    /\ OffsetsAlongX
    /\ \A k \in 1..Len(pathD.C) :
         /\ pathD.C[k].cpy1
              = 10 * waypoints[k].y + 4 * (waypoints[k + 1].y - waypoints[k].y)
         /\ pathD.C[k].cpy2
              = 10 * waypoints[k].y + 6 * (waypoints[k + 1].y - waypoints[k].y)
    /\ SamePathForSameWaypoints

\* C24, amended: for a list of n >= 4 waypoints the path has n - 1 cubic
\* segments, the k-th ending at waypoint k; the control points' x lie at the
\* offsets 0.4 and 0.6 between the pair's x coordinates, the first control
\* point's y is the previous waypoint's y and the second control point's y
\* is the current waypoint's y; identical waypoint lists give identical path
\* descriptions.
C24_Spline ==
  (pc = "returned" /\ Len(waypoints) >= 4) =>
    /\ OneSegmentPerPair
    /\ OffsetsAlongX
    /\ \A k \in 1..Len(pathD.C) :
         /\ pathD.C[k].cpy1 = 10 * waypoints[k].y
         /\ pathD.C[k].cpy2 = 10 * waypoints[k + 1].y
    /\ SamePathForSameWaypoints

\* The second call of render returned a path over a grid with a bar, one of
\* its segments joining waypoints that differ in x and in y.
C24_Witness ==
  /\ pc = "returned"
  /\ call = 2
  /\ Len(waypoints) >= 4
  /\ DOMAIN barHeightMap # {}
  /\ Len(pathD.C) = Len(waypoints) - 1
  /\ \E k \in 1..(Len(waypoints) - 1) :
       /\ waypoints[k].x # waypoints[k + 1].x
       /\ waypoints[k].y # waypoints[k + 1].y

IsFace(e) == e[1] \in { "shadow", "lit", "top" }

IsFloor(e) == e[1] = "floor"

\* Cell a comes before cell b in ascending (week, dayOfWeek) order.
CellBefore(a, b) == a[1] < b[1] \/ (a[1] = b[1] /\ a[2] < b[2])

\* The cells of the days with a positive count.
PositiveCells == { << weekOf(days[k]), dowOf(days[k]) >> : k \in PosIdx }

C26_NoRevisit ==
  Walking =>
    /\ Cardinality({ cellOf(waypoints[k]) : k \in 2..Len(waypoints) })
         = Len(waypoints) - 1
    /\ \A k \in 1..(Len(waypoints) - 1) :
         progress(waypoints[k + 1]) = progress(waypoints[k]) =>
           /\ waypoints[k + 1].w - waypoints[k].w = waypoints[k + 1].d - waypoints[k].d
           /\ Abs(waypoints[k + 1].w - waypoints[k].w) = 1
    /\ Cardinality({ c \in (0..totalWeeks) \X (0..6) : c[1] - c[2] = currW - currD })
         <= 7

\* A walk of 80 steps, with waypoints more than historyLen positions apart,
\* that took a step without forward progress.
C26_Witness ==
  /\ pc = "done"
  /\ Len(waypoints) = steps + 1
  /\ \E k \in 2..(Len(waypoints) - 1) :
       progress(waypoints[k + 1]) = progress(waypoints[k])

Repeats(k) == moves[k].dw = lastDw /\ moves[k].dd = lastDd

\* C28: whenever the candidate that repeats the previous move survives the
\* cutoff it is ranked strictly first among the survivors of the step for
\* every jitter: its score is at least 50 with the lowest jitter, every other
\* survivor scores less than 28 with the highest, and with the jitters the
\* iteration draws it is the first entry of the sorted survivors, above the
\* second.
C28_RepeatRankedFirst ==
  pc = "walk" =>
    \A k \in 1..Len(moves) :
      (Repeats(k) /\ Admissible(k)) =>
        /\ isValid(candidate({}, k))
        /\ candidate({}, k).score >= 2 * 50
        /\ drawnScore(k) >= 2 * 50
        /\ \A j \in 1..Len(moves) :
             (j # k /\ Admissible(j)) =>
               /\ candidate({ j }, j).score < 2 * 28
               /\ candidate({ j }, j).score < candidate({}, k).score
               /\ drawnScore(j) < drawnScore(k)
        /\ \A vs \in { validOf(seededHigh) } :
             /\ vs[1].move = moves[k]
             /\ Len(vs) > 1 => vs[2].score < vs[1].score

\* The cell the walk would have entered by repeating the move before its
\* last one.
straightOn ==
  << 2 * waypoints[Len(waypoints) - 1].w - waypoints[Len(waypoints) - 2].w,
     2 * waypoints[Len(waypoints) - 1].d - waypoints[Len(waypoints) - 2].d >>

\* A step over a grid with a bar in which the candidate repeating the
\* previous move survived (its cell inside the bounds and not in the history,
\* the move not backward) and the walk took another one.
C28_Witness ==
  /\ pc = "walk"
  /\ Len(waypoints) >= 3
  /\ Len(recentHistory) < historyLen
  /\ DOMAIN barHeightMap # {}
  /\ InBounds(straightOn[1], straightOn[2])
  /\ \A h \in 1..Len(recentHistory) : recentHistory[h] # straightOn
  /\ progress(waypoints[Len(waypoints) - 1]) >= progress(waypoints[Len(waypoints) - 2])
  /\ << currW, currD >> # straightOn

\* The cells inside the walk's bounds with week - dayOfWeek >= 15.
ForwardCells ==
  { c \in (0..(totalWeeks - 1)) \X (0..6) : c[1] - c[2] >= 15 }

\* C29: over a half-year window (25 or 26 weeks) the walk never spends its
\* budget of 80 steps: it ends with no candidate left above the cutoff and
\* with fewer than 81 waypoints, the cells inside the grid with
\* week - dayOfWeek >= 15 being fewer than 80 and each holding at most one of
\* the waypoints after the initial one.
C29_HalfYearTrapped ==
  (duration = "half-year" /\ Walking) =>
    /\ totalWeeks \in { 25, 26 }
    /\ \A fc \in { ForwardCells } :
         /\ Cardinality(fc) < 80
         /\ Len(waypoints) - 1 <= Cardinality(fc)
         /\ \A k \in 2..Len(waypoints) : cellOf(waypoints[k]) \in fc
    /\ i < steps
    /\ Len(waypoints) < 81
    /\ WalkOver => Len(validOf({})) = 0

\* A walk over a half-year window that ended trapped after more steps than
\* the history holds.
C29_Witness ==
  /\ duration = "half-year"
  /\ pc = "done"
  /\ i > historyLen
  /\ i < steps
  /\ Len(validOf({})) = 0

\* C30: every waypoint after the initial one lies in
\* [0, totalWeeks) x [0, 6], so the walk never enters the oldest week
\* (week = totalWeeks), with or without bars there; the initial waypoint is
\* the cell (20, 5) whatever the grid and the data, and it is inside the
\* walk's bounds exactly when totalWeeks > 20, as it is for the windows of
\* both durations.
C30_WalkBounds ==
  Walking =>
    /\ cellOf(waypoints[1]) = << 20, 5 >>
    /\ \A k \in 2..Len(waypoints) :
         /\ 0 <= waypoints[k].w /\ waypoints[k].w < totalWeeks
         /\ 0 <= waypoints[k].d /\ waypoints[k].d <= 6
    /\ InBounds(waypoints[1].w, waypoints[1].d) <=> totalWeeks > 20
    /\ days[1].date \in { startOf(end, dur) : dur \in Durations } => totalWeeks > 20

\* A walk over the grid of 20 weeks, whose initial waypoint is outside the
\* bounds, standing on (19, 4) next to a bar in the oldest week.
C30_Witness ==
  /\ pc = "walk"
  /\ totalWeeks = 20
  /\ << 20, 3 >> \in DOMAIN barHeightMap
  /\ Len(waypoints) >= 2
  /\ currW = 19
  /\ currD = 4

=============================================================================
